---- MODULE Spec2Model ----
(***************************************************************************)
(* Context Switch Guardian (src/app.py): a Flask service that classifies   *)
(* voice transcripts received on a webhook, keeps an in-memory             *)
(* interruption log and focus state, and computes a daily report.          *)
(*                                                                         *)
(* Encoding of Python values:                                              *)
(*   str          TLA+ string (Len, SubSeq and \o act on characters)       *)
(*   None         the string None below, which no transcript equals        *)
(*   dict         record; a key is present iff it is in DOMAIN             *)
(*   list         sequence                                                 *)
(*   float with one decimal place (hours_lost, focus_score)                *)
(*                integer number of tenths: 6.1 is 61, 10.0 is 100         *)
(***************************************************************************)
EXTENDS Integers, Sequences, FiniteSets, TLC

VARIABLES
    interruptions,   \* app.py:10  the interruption log (list of dicts)
    user_state,      \* app.py:11  focus_mode_active, focus_start_time
    slack_url,       \* os.environ['SLACK_WEBHOOK_URL'] is set (TRUE/FALSE)
    clock,           \* what datetime.now() returns
    request,         \* the request the last handler served
    response,        \* the response the last handler returned
    slack,           \* messages the last handler gave send_slack_notification
    recent_reports,  \* history: the last two reports since the last append
    classified,      \* history: number of events classified as interruptions
    before,          \* history: log and focus state before the last request
    rpc,             \* threaded server: position of the report thread
    r_total,         \* report thread local total_interruptions
    r_index,         \* report thread: index of the list iterator
    r_by_type        \* report thread local by_type

vars == <<interruptions, user_state, slack_url, clock, request, response,
          slack, recent_reports, classified, before, rpc, r_total, r_index,
          r_by_type>>

None == "None"

(***************************************************************************)
(* Bounds of the model.                                                    *)
(***************************************************************************)
MaxLog == 2
MaxBulk == 30
MaxClock == 1
MaxConc == 3

(***************************************************************************)
(* str.lower() on ASCII text.                                              *)
(***************************************************************************)
UpperCase == <<"A","B","C","D","E","F","G","H","I","J","K","L","M",
               "N","O","P","Q","R","S","T","U","V","W","X","Y","Z">>

LowerCase == <<"a","b","c","d","e","f","g","h","i","j","k","l","m",
               "n","o","p","q","r","s","t","u","v","w","x","y","z">>

LowerChar(c) ==
    IF \E i \in 1..26 : UpperCase[i] = c
    THEN LowerCase[CHOOSE i \in 1..26 : UpperCase[i] = c]
    ELSE c

RECURSIVE lower(_)
lower(s) ==
    IF s = "" THEN ""
    ELSE LowerChar(SubSeq(s, 1, 1)) \o lower(SubSeq(s, 2, Len(s)))

\* Python's  keyword in text  for strings: substring containment
In(keyword, text) ==
    \E i \in 0..(Len(text) - Len(keyword)) :
        SubSeq(text, i + 1, i + Len(keyword)) = keyword

(***************************************************************************)
(* detect_focus_mode, app.py:125-136                                       *)
(***************************************************************************)
triggers == <<"focus mode", "entering focus mode", "deep work",
              "do not disturb", "dnd">>

detect_focus_mode(transcript) ==
    LET text == lower(transcript)
    IN  \E i \in 1..Len(triggers) : In(triggers[i], text)

(***************************************************************************)
(* detect_interruption, app.py:139-156.  patterns is a dict literal, which *)
(* iterates in insertion order.                                            *)
(***************************************************************************)
patterns_reversed ==
    << [int_type |-> "urgent",
        keywords |-> <<"urgent", "asap", "emergency", "now", "immediately">>],
       [int_type |-> "meeting",
        keywords |-> <<"meeting", "call", "zoom", "schedule", "calendar">>],
       [int_type |-> "work_request",
        keywords |-> <<"can you", "quick question", "need help", "could you">>],
       [int_type |-> "casual_chat",
        keywords |-> <<"lunch", "coffee", "how are you", "hey", "what's up">>] >>

patterns ==
    << [int_type |-> "casual_chat",
        keywords |-> <<"lunch", "coffee", "how are you", "hey", "what's up">>],
       [int_type |-> "work_request",
        keywords |-> <<"can you", "quick question", "need help", "could you">>],
       [int_type |-> "meeting",
        keywords |-> <<"meeting", "call", "zoom", "schedule", "calendar">>],
       [int_type |-> "urgent",
        keywords |-> <<"urgent", "asap", "emergency", "now", "immediately">>] >>

\* the for loop of app.py:152-156 from the i-th item on; a result whose
\* type is None stands for the function returning None
RECURSIVE detect_from(_, _)
detect_from(i, text) ==
    IF i > Len(patterns) THEN [type |-> None]
    ELSE IF \E k \in 1..Len(patterns[i].keywords) :
                In(patterns[i].keywords[k], text)
         THEN [type |-> patterns[i].int_type]
         ELSE detect_from(i + 1, text)

detect_interruption(transcript) == detect_from(1, lower(transcript))

(***************************************************************************)
(* round(x, 1) where x is the double nearest to num/den, num >= 0, den > 0,*)
(* in tenths.  Python rounds the exact binary value of x correctly: when   *)
(* num/den is not half-way between two tenths its nearest tenth results;   *)
(* when it is, the side on which the double lies decides, and a double     *)
(* that is exactly half-way goes to the even tenth.  The double lies below *)
(* num/den iff the remainder of num * 2^(52 - e) by den is below den / 2,  *)
(* where 2^e <= num/den < 2^(e+1).                                         *)
(***************************************************************************)
RECURSIVE Pow2Mod(_, _)
Pow2Mod(k, m) == IF k = 0 THEN 1 % m ELSE (2 * Pow2Mod(k - 1, m)) % m

RECURSIVE ExpUp(_, _, _)
ExpUp(num, den, e) == IF 2 * den <= num THEN ExpUp(num, 2 * den, e + 1) ELSE e

RECURSIVE ExpDown(_, _, _)
ExpDown(num, den, e) == IF num < den THEN ExpDown(2 * num, den, e - 1) ELSE e

Exponent(num, den) ==
    IF num >= den THEN ExpUp(num, den, 0) ELSE ExpDown(num, den, 0)

round1(num, den) ==
    LET t   == (10 * num) \div den
        rem == (10 * num) % den
        r   == ((num % den) * Pow2Mod(52 - Exponent(num, den), den)) % den
    IN  IF 2 * rem < den THEN t
        ELSE IF 2 * rem > den THEN t + 1
        ELSE IF r = 0 THEN (IF t % 2 = 0 THEN t ELSE t + 1)
        ELSE IF 2 * r < den THEN t
        ELSE t + 1

(***************************************************************************)
(* get_tip, app.py:264-271                                                 *)
(***************************************************************************)
HighTip == "High interruption day! Try blocking focus time tomorrow."
PositiveTip == "Great focus day! Keep it up."
ModerateTip == "Moderate interruptions. Use focus mode for deep work."

get_tip_inclusive(count) ==
    IF count >= 15 THEN HighTip
    ELSE IF count <= 5 THEN PositiveTip
    ELSE ModerateTip

get_tip(count) ==
    IF count > 15 THEN HighTip
    ELSE IF count < 5 THEN PositiveTip
    ELSE ModerateTip

(***************************************************************************)
(* generate_daily_report, app.py:192-212                                   *)
(***************************************************************************)
\* app.py:195   round((total_interruptions * 23) / 60, 1), in tenths
hours_lost_of(total_interruptions) == round1(total_interruptions * 23, 60)

focus_score_no_floor(total_interruptions) ==
    LET x == 30 - total_interruptions
    IN  IF x < 0 THEN 0 ELSE round1(IF 30 <= x THEN 30 ELSE x, 3)

\* app.py:196   round(max(1, min(10, 10 - total_interruptions / 3)), 1), in
\* tenths; 10 - total/3 is kept as the fraction x/3
focus_score_of(total_interruptions) ==
    LET x      == 30 - total_interruptions
        capped == IF 30 <= x THEN 30 ELSE x
        floored == IF 3 >= capped THEN 3 ELSE capped
    IN  round1(floored, 3)

by_type_overwrite(by_type, int_type) ==
    [k \in (DOMAIN by_type) \cup {int_type} |->
        IF k = int_type THEN 1 ELSE by_type[k]]

\* app.py:202   by_type[int_type] = by_type.get(int_type, 0) + 1
by_type_add(by_type, int_type) ==
    [k \in (DOMAIN by_type) \cup {int_type} |->
        IF k = int_type
        THEN (IF int_type \in DOMAIN by_type THEN by_type[int_type] ELSE 0) + 1
        ELSE by_type[k]]

EmptyDict == [k \in {} |-> 0]

by_type_zero_filled(records, i, by_type) ==
    [k \in {patterns[j].int_type : j \in 1..Len(patterns)} |->
        Cardinality({n \in 1..Len(records) : records[n].type = k})]

\* app.py:199-202, the loop from the i-th record on
RECURSIVE count_by_type(_, _, _)
count_by_type(records, i, by_type) ==
    IF i > Len(records) THEN by_type
    ELSE count_by_type(records, i + 1, by_type_add(by_type, records[i].type))

\* app.py:204-210
build_report(total_interruptions, by_type) ==
    [ total_interruptions   |-> total_interruptions,
      hours_lost            |-> hours_lost_of(total_interruptions),
      focus_score           |-> focus_score_of(total_interruptions),
      interruptions_by_type |-> by_type,
      tip                   |-> get_tip(total_interruptions) ]

generate_daily_report_outside_focus ==
    IF user_state.focus_mode_active
    THEN build_report(0, EmptyDict)
    ELSE build_report(Len(interruptions),
                      count_by_type(interruptions, 1, EmptyDict))

generate_daily_report ==
    build_report(Len(interruptions), count_by_type(interruptions, 1, EmptyDict))

(***************************************************************************)
(* send_slack_notification, app.py:274-290.  outcome is what requests.post *)
(* does: "sent" (status 200), "http_error" (another status) or             *)
(* "network_error" (it raises).  Every path returns normally; the result   *)
(* here is the record of the hand-over.                                    *)
(***************************************************************************)
Outcomes == {"sent", "http_error", "network_error"}

\* requests.post is reached only when the webhook URL is configured
PostOutcomes == IF slack_url THEN Outcomes ELSE {"not_posted"}

send_slack_notification_raise_for_status(payload, outcome) ==
    IF ~slack_url
    THEN [payload |-> payload, delivery |-> "skipped", raised |-> FALSE]
    ELSE [ payload |-> payload, delivery |-> outcome,
           raised |-> (outcome = "http_error") ]

send_slack_notification_unguarded(payload, outcome) ==
    IF ~slack_url
    THEN [payload |-> payload, delivery |-> "skipped", raised |-> FALSE]
    ELSE [ payload |-> payload, delivery |-> outcome,
           raised |-> (outcome = "network_error") ]

\* raised: an exception leaves the function (none does: the except clause
\* of app.py:289 catches what requests.post raises)
send_slack_notification(payload, outcome) ==
    IF ~slack_url
    THEN [payload |-> payload, delivery |-> "skipped", raised |-> FALSE]
    ELSE [payload |-> payload, delivery |-> outcome, raised |-> FALSE]

send_daily_report_to_slack_type_count(report, outcome) ==
    LET by_type == report.interruptions_by_type
        lines   == {"* " \o k \o ": " \o ToString(by_type[k]) :
                        k \in DOMAIN by_type}
    IN  send_slack_notification(
            [ text                |-> "Daily Focus Report",
              total_interruptions |-> Cardinality(DOMAIN by_type),
              hours_lost          |-> report.hours_lost,
              focus_score         |-> report.focus_score,
              by_type_text        |-> IF lines = {} THEN {"* None"} ELSE lines,
              tip                 |-> report.tip ],
            outcome)

\* app.py:215-261; the bullet lines of by_type_text as a set (their order
\* in the text is the dict's insertion order and is not modelled)
send_daily_report_to_slack(report, outcome) ==
    LET by_type == report.interruptions_by_type
        lines   == {"* " \o k \o ": " \o ToString(by_type[k]) :
                        k \in DOMAIN by_type}
    IN  send_slack_notification(
            [ text                |-> "Daily Focus Report",
              total_interruptions |-> report.total_interruptions,
              hours_lost          |-> report.hours_lost,
              focus_score         |-> report.focus_score,
              by_type_text        |-> IF lines = {} THEN {"* None"} ELSE lines,
              tip                 |-> report.tip ],
            outcome)

\* datetime.now().isoformat()
isoformat(now) == "2025-01-01T09:00:0" \o ToString(now)

(***************************************************************************)
(* activate_focus_mode, app.py:170-189: the new user_state and the message *)
(* handed to Slack after the state is written.                             *)
(***************************************************************************)
\* a hand-over together with the user_state in force when it is made
sent_in_state(message, state) ==
    [ payload    |-> message.payload,
      delivery   |-> message.delivery,
      raised     |-> message.raised,
      user_state |-> state ]

activate_focus_mode_no_flag(now, outcome) ==
    [ user_state |-> [ focus_mode_active |-> ~user_state.focus_mode_active,
                       focus_start_time  |-> isoformat(now) ],
      slack      |-> << sent_in_state(
                            send_slack_notification(
                               [text |-> "Focus Mode Activated"], outcome),
                            [ focus_mode_active |-> ~user_state.focus_mode_active,
                              focus_start_time  |-> isoformat(now) ]) >> ]

activate_focus_mode_keep_start(now, outcome) ==
    [ user_state |-> [ focus_mode_active |-> TRUE,
                       focus_start_time  |->
                           IF user_state.focus_mode_active
                           THEN user_state.focus_start_time
                           ELSE isoformat(now) ],
      slack      |-> << sent_in_state(
                            send_slack_notification(
                               [text |-> "Focus Mode Activated"], outcome),
                            [ focus_mode_active |-> TRUE,
                              focus_start_time  |->
                                  IF user_state.focus_mode_active
                                  THEN user_state.focus_start_time
                                  ELSE isoformat(now) ]) >> ]

activate_focus_mode(now, outcome) ==
    [ user_state |-> [ focus_mode_active |-> TRUE,
                       focus_start_time  |-> isoformat(now) ],
      slack      |-> << sent_in_state(
                            send_slack_notification(
                               [text |-> "Focus Mode Activated"], outcome),
                            [ focus_mode_active |-> TRUE,
                              focus_start_time  |-> isoformat(now) ]) >> ]

(***************************************************************************)
(* save_interruption, app.py:159-167: the log after the append             *)
(***************************************************************************)
save_interruption_twice(transcript, timestamp, int_type) ==
    LET record == [ transcript        |-> transcript,
                    timestamp         |-> timestamp,
                    type              |-> int_type,
                    time_lost_minutes |-> 23 ]
    IN  interruptions \o << record, record >>

save_interruption_swapped(transcript, timestamp, int_type) ==
    Append(interruptions,
           [ transcript        |-> timestamp,
             timestamp         |-> transcript,
             type              |-> int_type,
             time_lost_minutes |-> 23 ])

save_interruption_front(transcript, timestamp, int_type) ==
    << [ transcript        |-> transcript,
         timestamp         |-> timestamp,
         type              |-> int_type,
         time_lost_minutes |-> 23 ] >> \o interruptions

save_interruption(transcript, timestamp, int_type) ==
    Append(interruptions,
           [ transcript        |-> transcript,
             timestamp         |-> timestamp,
             type              |-> int_type,
             time_lost_minutes |-> 23 ])

(***************************************************************************)
(* webhook_omi, app.py:34-77: reading the request                          *)
(***************************************************************************)
\* request.json of a request without a JSON body
NoBody == [no_json_body |-> TRUE]

\* dict.get(key, default)
Get(d, key, default) == IF key \in DOMAIN d THEN d[key] ELSE default

Truthy(v) == v # None /\ v # ""

\* ' '.join(texts) for a list of strings
RECURSIVE join(_)
join(texts) ==
    IF texts = << >> THEN ""
    ELSE IF Len(texts) = 1 THEN texts[1]
    ELSE texts[1] \o " " \o join(Tail(texts))

seg_texts(segments) == [i \in 1..Len(segments) |-> Get(segments[i], "text", "")]

\* app.py:46-57
extract_transcript(data) ==
    IF "transcript" \in DOMAIN data THEN Get(data, "transcript", "")
    ELSE IF "transcript_segments" \in DOMAIN data
         THEN join(seg_texts(Get(data, "transcript_segments", << >>)))
    ELSE IF "structured" \in DOMAIN data
         THEN Get(Get(data, "structured", EmptyDict), "overview", "")
    ELSE ""

\* app.py:60
extract_timestamp(data, now) ==
    IF Truthy(Get(data, "created_at", None)) THEN data.created_at
    ELSE IF Truthy(Get(data, "timestamp", None)) THEN data.timestamp
    ELSE isoformat(now)

\* the statements of the try block that raise: 'transcript' in data on a
\* missing body (49), join over a segment whose text is None (54),
\* transcript.lower() on None (127)
webhook_raises(data) ==
    \/ data = NoBody
    \/ /\ "transcript" \notin DOMAIN data
       /\ "transcript_segments" \in DOMAIN data
       /\ \E i \in 1..Len(data.transcript_segments) :
             seg_texts(data.transcript_segments)[i] = None
    \/ extract_transcript(data) = None

(***************************************************************************)
(* Requests                                                                *)
(***************************************************************************)
Payloads ==
    { [transcript |-> "Entering Focus Mode now"],
      [transcript |-> "Hey, can you call me ASAP",
       created_at |-> "2025-01-01T08:00:00"],
      [transcript |-> "URGENT meeting", timestamp |-> "2025-01-01T08:30:00"],
      [transcript_segments |-> << [text |-> "Could you"], [speaker |-> 1],
                                  [text |-> "help"] >>,
       created_at |-> ""],
      [structured |-> [overview |-> "nice weather"]],
      [transcript |-> "   "],
      [session_id |-> "abc"],
      [transcript |-> None],
      [transcript_segments |-> << [text |-> None] >>],
      NoBody }

BulkPayloads ==
    { [transcript |-> "this is urgent", created_at |-> "2025-01-01T08:00:00"] }

ThreadedPayloads ==
    { [transcript |-> "this is urgent", created_at |-> "2025-01-01T08:00:00"],
      [transcript |-> "lunch?", created_at |-> "2025-01-01T12:00:00"],
      [transcript |-> "dnd"] }

\* transcripts that combine triggers and keywords, in either order
Phrases ==
    { "Focus Mode", "entering focus mode", "DEEP WORK", "Do Not Disturb",
      "dnd",
      "lunch", "Coffee", "how are you", "HEY", "what's up",
      "can you", "Quick Question", "need help", "could you",
      "meeting", "Call", "zoom", "schedule", "calendar",
      "URGENT", "asap", "emergency", "Now", "immediately",
      "hello there", "I know they", "send", "   " }

ClassifyPayloads ==
    { [transcript |-> a] : a \in Phrases \cup {""} }
    \cup { [transcript |-> a \o " " \o b] : a \in Phrases, b \in Phrases }

AllPayloads ==
    Payloads \cup BulkPayloads \cup ThreadedPayloads \cup ClassifyPayloads

\* the results of the two detectors on the transcripts of these requests,
\* computed once
Transcripts ==
    { extract_transcript(data) : data \in {d \in AllPayloads : ~webhook_raises(d)} }

Detected ==
    [ transcript \in Transcripts |->
        [ focus_mode   |-> detect_focus_mode(transcript),
          interruption |-> detect_interruption(transcript) ] ]

(***************************************************************************)
(* process_conversation, app.py:105-122: the returned string, the log and  *)
(* focus state it leaves, and the messages handed to Slack.                *)
(***************************************************************************)
process_conversation_interruption_first(transcript, timestamp, now, outcome) ==
    LET interruption == Detected[transcript].interruption
    IN  IF interruption.type # None
        THEN [ result        |-> "interruption_" \o interruption.type,
               interruptions |-> save_interruption(transcript, timestamp,
                                                   interruption.type),
               user_state    |-> user_state,
               slack         |-> << >> ]
        ELSE IF Detected[transcript].focus_mode
        THEN [ result        |-> "focus_mode_activated",
               interruptions |-> interruptions,
               user_state    |-> activate_focus_mode(now, outcome).user_state,
               slack         |-> activate_focus_mode(now, outcome).slack ]
        ELSE [ result        |-> "no_action_needed",
               interruptions |-> interruptions,
               user_state    |-> user_state,
               slack         |-> << >> ]

process_conversation_ends_focus(transcript, timestamp, now, outcome) ==
    IF Detected[transcript].focus_mode
    THEN [ result        |-> "focus_mode_activated",
           interruptions |-> interruptions,
           user_state    |-> activate_focus_mode(now, outcome).user_state,
           slack         |-> activate_focus_mode(now, outcome).slack ]
    ELSE LET interruption == Detected[transcript].interruption
         IN  IF interruption.type # None
             THEN [ result        |-> "interruption_" \o interruption.type,
                    interruptions |-> save_interruption(transcript, timestamp,
                                                        interruption.type),
                    user_state    |-> [ focus_mode_active |-> FALSE,
                                        focus_start_time  |-> None ],
                    slack         |-> << >> ]
             ELSE [ result        |-> "no_action_needed",
                    interruptions |-> interruptions,
                    user_state    |-> user_state,
                    slack         |-> << >> ]

process_conversation_quiet_in_focus(transcript, timestamp, now, outcome) ==
    IF Detected[transcript].focus_mode
    THEN [ result        |-> "focus_mode_activated",
           interruptions |-> interruptions,
           user_state    |-> activate_focus_mode(now, outcome).user_state,
           slack         |-> activate_focus_mode(now, outcome).slack ]
    ELSE LET interruption == Detected[transcript].interruption
         IN  IF interruption.type # None /\ ~user_state.focus_mode_active
             THEN [ result        |-> "interruption_" \o interruption.type,
                    interruptions |-> save_interruption(transcript, timestamp,
                                                        interruption.type),
                    user_state    |-> user_state,
                    slack         |-> << >> ]
             ELSE [ result        |-> "no_action_needed",
                    interruptions |-> interruptions,
                    user_state    |-> user_state,
                    slack         |-> << >> ]

process_conversation(transcript, timestamp, now, outcome) ==
    IF Detected[transcript].focus_mode
    THEN [ result        |-> "focus_mode_activated",
           interruptions |-> interruptions,
           user_state    |-> activate_focus_mode(now, outcome).user_state,
           slack         |-> activate_focus_mode(now, outcome).slack ]
    ELSE LET interruption == Detected[transcript].interruption
         IN  IF interruption.type # None
             THEN [ result        |-> "interruption_" \o interruption.type,
                    interruptions |-> save_interruption(transcript, timestamp,
                                                        interruption.type),
                    user_state    |-> user_state,
                    slack         |-> << >> ]
             ELSE [ result        |-> "no_action_needed",
                    interruptions |-> interruptions,
                    user_state    |-> user_state,
                    slack         |-> << >> ]

(***************************************************************************)
(* webhook_omi, app.py:34-77                                               *)
(***************************************************************************)
NoResponse == [route |-> "none"]

\* history of reports: the previous one and the new one
last_two(reports, report) ==
    IF reports = << >> THEN << report >> ELSE << reports[Len(reports)], report >>

report_thread == <<rpc, r_total, r_index, r_by_type>>

\* an exception raised while a message was sent reaches the handler
Raised(messages) == \E i \in 1..Len(messages) : messages[i].raised

\* the log and focus state a handler finds
Found == [interruptions |-> interruptions, user_state |-> user_state]

webhook_omi(data) ==
    /\ request' = [route |-> "/webhook/omi", data |-> data]
    /\ before' = Found
    /\ IF webhook_raises(data)
       THEN /\ response' = [ route |-> "/webhook/omi", status |-> 500,
                             success |-> FALSE ]
            /\ slack' = << >>
            /\ UNCHANGED <<interruptions, user_state, recent_reports,
                           classified>>
       ELSE \E outcome \in PostOutcomes :
              LET done == process_conversation(extract_transcript(data),
                              extract_timestamp(data, clock), clock, outcome)
              IN  /\ interruptions' = done.interruptions
                  /\ user_state' = done.user_state
                  /\ slack' = done.slack
                  /\ response' =
                        IF Raised(done.slack)
                        THEN [ route |-> "/webhook/omi", status |-> 500,
                               success |-> FALSE ]
                        ELSE [ route |-> "/webhook/omi", status |-> 200,
                               success |-> TRUE, processed |-> done.result ]
                  /\ recent_reports' =
                        IF done.interruptions = interruptions
                        THEN recent_reports ELSE << >>
                  /\ classified' =
                        IF In("interruption_", done.result)
                        THEN classified + 1 ELSE classified
    /\ UNCHANGED <<slack_url, clock, report_thread>>

(***************************************************************************)
(* home, app.py:19-28                                                      *)
(***************************************************************************)
home ==
    /\ request' = [route |-> "/"]
    /\ response' = [ route |-> "/", status |-> 200,
                     timestamp |-> isoformat(clock),
                     interruptions_today |-> Len(interruptions),
                     focus_mode_active |-> user_state.focus_mode_active ]
    /\ slack' = << >>
    /\ before' = Found
    /\ UNCHANGED <<interruptions, user_state, slack_url, clock,
                   recent_reports, classified, report_thread>>

(***************************************************************************)
(* daily_report, app.py:83-98, served without interference from other      *)
(* requests.                                                               *)
(***************************************************************************)
daily_report ==
    /\ rpc = "idle"
    /\ \E outcome \in PostOutcomes :
         LET report == generate_daily_report
         IN  /\ request' = [route |-> "/report/daily"]
             /\ slack' = << send_daily_report_to_slack(report, outcome) >>
             /\ response' =
                   IF Raised(slack')
                   THEN [route |-> "/report/daily", status |-> 500]
                   ELSE [ route |-> "/report/daily", status |-> 200,
                          report |-> report ]
             /\ recent_reports' =
                   IF Raised(slack') THEN recent_reports
                   ELSE last_two(recent_reports, report)
             /\ before' = Found
    /\ UNCHANGED <<interruptions, user_state, slack_url, clock, classified,
                   report_thread>>

(***************************************************************************)
(* daily_report on the threaded development server (app.run, app.py:305):  *)
(* the interpreter may switch to a webhook thread between the len() of     *)
(* line 194 and the loop of lines 200-202, and between two iterations.     *)
(* The list iterator yields interruptions[r_index] while r_index is below  *)
(* the current length of the list.                                         *)
(***************************************************************************)
report_begin ==
    /\ rpc = "idle"
    /\ rpc' = "loop"
    /\ r_total' = Len(interruptions)
    /\ r_index' = 0
    /\ r_by_type' = EmptyDict
    /\ request' = [route |-> "/report/daily"]
    /\ UNCHANGED <<interruptions, user_state, slack_url, clock, response,
                   slack, recent_reports, classified, before>>

report_iterate ==
    /\ rpc = "loop"
    /\ r_index < Len(interruptions)
    /\ r_by_type' = by_type_add(r_by_type, interruptions[r_index + 1].type)
    /\ r_index' = r_index + 1
    /\ UNCHANGED <<interruptions, user_state, slack_url, clock, request,
                   response, slack, recent_reports, classified, before, rpc,
                   r_total>>

report_end ==
    /\ rpc = "loop"
    /\ r_index >= Len(interruptions)
    /\ \E outcome \in PostOutcomes :
         LET report == build_report(r_total, r_by_type)
         IN  /\ slack' = << send_daily_report_to_slack(report, outcome) >>
             /\ response' =
                   IF Raised(slack')
                   THEN [route |-> "/report/daily", status |-> 500]
                   ELSE [ route |-> "/report/daily", status |-> 200,
                          report |-> report ]
             /\ recent_reports' =
                   IF Raised(slack') THEN recent_reports
                   ELSE last_two(recent_reports, report)
             /\ before' = Found
    /\ rpc' = "idle"
    /\ r_total' = 0
    /\ r_index' = 0
    /\ r_by_type' = EmptyDict
    /\ UNCHANGED <<interruptions, user_state, slack_url, clock, request,
                   classified>>

\* time passes
Tick ==
    /\ clock < MaxClock
    /\ clock' = clock + 1
    /\ UNCHANGED <<interruptions, user_state, slack_url, request, response,
                   slack, recent_reports, classified, before, report_thread>>

\* whether serving data appends to the log
appends(data) ==
    /\ ~webhook_raises(data)
    /\ ~Detected[extract_transcript(data)].focus_mode
    /\ Detected[extract_transcript(data)].interruption.type # None

\* a webhook request out of a set, the log growing up to a bound
webhook(payloads, bound) ==
    \E data \in payloads :
        /\ appends(data) => Len(interruptions) < bound
        /\ webhook_omi(data)

(***************************************************************************)
(* Specifications                                                          *)
(***************************************************************************)
Init ==
    /\ interruptions = << >>
    /\ user_state = [focus_mode_active |-> FALSE, focus_start_time |-> None]
    /\ slack_url \in BOOLEAN
    /\ clock = 0
    /\ request = NoResponse
    /\ response = NoResponse
    /\ slack = << >>
    /\ recent_reports = << >>
    /\ classified = 0
    /\ before = Found
    /\ rpc = "idle"
    /\ r_total = 0
    /\ r_index = 0
    /\ r_by_type = EmptyDict

\* requests served one at a time, each to completion
WebhookEvent == webhook(Payloads, MaxLog)

Next == WebhookEvent \/ home \/ daily_report \/ Tick

Spec == Init /\ [][Next]_vars

\* many interruptions of one kind
BulkEvent == webhook(BulkPayloads, MaxBulk)

NextBulk == BulkEvent \/ home \/ daily_report \/ Tick

SpecBulk == Init /\ [][NextBulk]_vars

\* report requests served while webhook requests arrive
ThreadedEvent == webhook(ThreadedPayloads, MaxConc)

NextThreaded ==
    ThreadedEvent \/ report_begin \/ report_iterate \/ report_end

SpecThreaded == Init /\ [][NextThreaded]_vars

\* one request out of the combined transcripts, served in a state the
\* service can be in: log empty or not, focus mode active or not
InitClassify ==
    /\ interruptions \in
          { << >>,
            << [ transcript |-> "this is urgent",
                 timestamp |-> "2025-01-01T08:00:00",
                 type |-> "urgent", time_lost_minutes |-> 23 ] >> }
    /\ user_state \in
          { [focus_mode_active |-> FALSE, focus_start_time |-> None],
            [focus_mode_active |-> TRUE, focus_start_time |-> isoformat(0)] }
    /\ slack_url \in BOOLEAN
    /\ clock = 1
    /\ request = NoResponse
    /\ response = NoResponse
    /\ slack = << >>
    /\ recent_reports = << >>
    /\ classified = Len(interruptions)
    /\ before = Found
    /\ rpc = "idle"
    /\ r_total = 0
    /\ r_index = 0
    /\ r_by_type = EmptyDict

ClassifyEvent ==
    /\ response = NoResponse
    /\ webhook(ClassifyPayloads, MaxLog)

NextClassify == ClassifyEvent

SpecClassify == InitClassify /\ [][NextClassify]_vars

TypeOK ==
    /\ Len(interruptions) <= MaxBulk + 1
    /\ user_state.focus_mode_active \in BOOLEAN
    /\ rpc \in {"idle", "loop"}

(***************************************************************************)
(* Properties                                                              *)
(***************************************************************************)
IsWebhookOK(resp) == resp.route = "/webhook/omi" /\ resp.status = 200

IsReport(resp) == resp.route = "/report/daily" /\ resp.status = 200

\* the transcript of a served webhook request that did not fail
Served(req) == extract_transcript(req.data)

FocusTriggers ==
    {"focus mode", "entering focus mode", "deep work", "do not disturb", "dnd"}

HasTrigger(transcript) ==
    \E trigger \in FocusTriggers : In(trigger, lower(transcript))

KeywordsOf(int_type) ==
    LET p == CHOOSE i \in 1..Len(patterns) : patterns[i].int_type = int_type
    IN  {patterns[p].keywords[k] : k \in 1..Len(patterns[p].keywords)}

MatchesCategory(int_type, transcript) ==
    \E keyword \in KeywordsOf(int_type) : In(keyword, lower(transcript))

PriorityOrder == <<"casual_chat", "work_request", "meeting", "urgent">>

MatchingRanks(transcript) ==
    {c \in 1..4 : MatchesCategory(PriorityOrder[c], transcript)}

Lowest(ranks) == CHOOSE c \in ranks : \A d \in ranks : c <= d

\* C1: a webhook event whose lowercased transcript contains a focus
\* trigger, with or without interruption keywords, is answered
\* focus_mode_activated, leaves focus mode active and appends nothing to
\* the interruption log.
C1_FocusBeforeInterruption ==
    [][ ( /\ IsWebhookOK(response')
          /\ HasTrigger(Served(request')) )
        => /\ response'.processed = "focus_mode_activated"
           /\ user_state'.focus_mode_active
           /\ interruptions' = interruptions ]_vars

C1_Witness ==
    /\ IsWebhookOK(response)
    /\ HasTrigger(Served(request))
    /\ MatchingRanks(Served(request)) # {}
    /\ response.processed = "focus_mode_activated"
    /\ user_state.focus_mode_active
    /\ interruptions # << >>

\* C2: for a transcript without a focus trigger, detect_interruption
\* returns the first category, in the order casual_chat, work_request,
\* meeting, urgent, one of whose keywords occurs in the lowercased text,
\* wherever the keywords stand, and returns None exactly when no category
\* has a keyword in the text; the event is answered accordingly.
C2_PriorityOrder ==
    ( IsWebhookOK(response) /\ ~HasTrigger(Served(request)) )
    => LET transcript == Served(request)
           ranks == MatchingRanks(transcript)
           found == detect_interruption(transcript)
       IN  /\ (ranks = {}) <=> (found.type = None)
           /\ ranks = {} => response.processed = "no_action_needed"
           /\ ranks # {} =>
                /\ found.type = PriorityOrder[Lowest(ranks)]
                /\ response.processed =
                       "interruption_" \o PriorityOrder[Lowest(ranks)]
                /\ interruptions[Len(interruptions)].type =
                       PriorityOrder[Lowest(ranks)]

C2_Witness ==
    /\ IsWebhookOK(response)
    /\ Served(request) = "URGENT lunch"
    /\ MatchingRanks(Served(request)) = {1, 4}
    /\ response.processed = "interruption_casual_chat"

RECURSIVE SumOver(_, _)
SumOver(f, keys) ==
    IF keys = {} THEN 0
    ELSE LET k == CHOOSE x \in keys : TRUE
         IN  f[k] + SumOver(f, keys \ {k})

CountOfType(int_type) ==
    Cardinality({i \in 1..Len(interruptions) : interruptions[i].type = int_type})

\* C3: with requests served one at a time, every report has
\* total_interruptions equal to the sum of its per-type counts and to the
\* number of events so far classified as interruptions, and each type's
\* count is the number of logged records of that type.
C3_ReportCounts ==
    IsReport(response)
    => LET report == response.report
           by_type == report.interruptions_by_type
       IN  /\ report.total_interruptions = classified
           /\ SumOver(by_type, DOMAIN by_type) = report.total_interruptions
           /\ \A k \in DOMAIN by_type : by_type[k] = CountOfType(k)
           /\ \A i \in 1..Len(interruptions) :
                  interruptions[i].type \in DOMAIN by_type

C3_Witness ==
    /\ IsReport(response)
    /\ response.report.total_interruptions = 2
    /\ classified = 2
    /\ Cardinality(DOMAIN response.report.interruptions_by_type) = 2

\* the report computed from the first n records of the log
ReportOfPrefix(n) ==
    build_report(n, count_by_type(SubSeq(interruptions, 1, n), 1, EmptyDict))

\* C4: on the threaded server every report is computed from one prefix of
\* the log: its total equals the sum of its per-type counts, and all its
\* fields are those of the report over a single prefix.
C4_ConsistentPrefix ==
    IsReport(response)
    => LET report == response.report
           by_type == report.interruptions_by_type
       IN  /\ SumOver(by_type, DOMAIN by_type) = report.total_interruptions
           /\ \E n \in 0..Len(interruptions) : report = ReportOfPrefix(n)

\* C5: the focus state starts inactive with no start time, becomes active
\* only in a step that serves a transcript classified as a focus-mode
\* activation, stays active once active, and has a start time whenever it
\* is active.
C5_FocusStateMachine ==
    /\ user_state = [focus_mode_active |-> FALSE, focus_start_time |-> None]
    /\ [][ /\ user_state.focus_mode_active => user_state'.focus_mode_active
           /\ (~user_state.focus_mode_active /\ user_state'.focus_mode_active)
              => /\ IsWebhookOK(response')
                 /\ response'.processed = "focus_mode_activated"
                 /\ HasTrigger(Served(request')) ]_vars
    /\ [](user_state.focus_mode_active => user_state.focus_start_time # None)

\* focus mode is active, was activated before the current time, and later
\* requests of every kind have been served
C5_Witness ==
    /\ user_state.focus_mode_active
    /\ user_state.focus_start_time = isoformat(0)
    /\ clock > 0
    /\ IsReport(response)
    /\ interruptions # << >>

AllUrgent(n) ==
    /\ Len(interruptions) = n
    /\ \A i \in 1..n : interruptions[i].type = "urgent"

\* C6 as stated: the report over 16 urgent records has total 16, hours
\* lost 6.1, focus score 1.0, by-type {urgent: 16} and the high tip.
C6_AsStated ==
    ( IsReport(response) /\ AllUrgent(16) )
    => response.report =
         [ total_interruptions   |-> 16,
           hours_lost            |-> 61,
           focus_score           |-> 10,
           interruptions_by_type |-> [k \in {"urgent"} |-> 16],
           tip                   |-> HighTip ]

\* C6 amended: the report over 16 urgent records has total 16, hours lost
\* 6.1, focus score 4.7 (10 - 16/3, above the floor of 1), by-type
\* {urgent: 16} and the high tip.
C6_SixteenUrgent ==
    ( IsReport(response) /\ AllUrgent(16) )
    => response.report =
         [ total_interruptions   |-> 16,
           hours_lost            |-> 61,
           focus_score           |-> 47,
           interruptions_by_type |-> [k \in {"urgent"} |-> 16],
           tip                   |-> HighTip ]

C6_Witness ==
    /\ IsReport(response)
    /\ AllUrgent(16)
    /\ classified = 16
    /\ response.report.total_interruptions = 16

\* the tenth nearest to 10 - n/3, for n below 30
NearestTenth(n) == (2 * (300 - 10 * n) + 3) \div 6

\* C7: the focus score of a report over n records is 10 - n/3 clamped to
\* [1, 10] and rounded to one decimal: it lies in [1, 10], is 10.0 for
\* n = 0, is not above the score of any shorter log, and is 1.0 exactly
\* when n >= 27.
C7_FocusScore ==
    IsReport(response)
    => LET n == response.report.total_interruptions
           score == response.report.focus_score
       IN  /\ score = IF n >= 27 THEN 10 ELSE NearestTenth(n)
           /\ 10 <= score /\ score <= 100
           /\ n = 0 => score = 100
           /\ (score = 10) <=> (n >= 27)
           /\ \A m \in 0..n : focus_score_of(m) >= score

C7_Witness ==
    /\ IsReport(response)
    /\ response.report.total_interruptions = 28
    /\ response.report.focus_score = 10

\* C8: the tip depends on the total n alone: the positive message for
\* n < 5, the moderate message for 5 <= n <= 15 and the high message for
\* n > 15.
C8_TipBands ==
    IsReport(response)
    => LET n == response.report.total_interruptions
           tip == response.report.tip
       IN  /\ n < 5 => tip = PositiveTip
           /\ (5 <= n /\ n <= 15) => tip = ModerateTip
           /\ n > 15 => tip = HighTip
           /\ n = Len(interruptions)

C8_Witness ==
    /\ IsReport(response)
    /\ response.report.total_interruptions = 15
    /\ response.report.tip = ModerateTip

\* C9: a report over an empty log has total 0, hours lost 0.0, focus score
\* 10.0, no entry in interruptions_by_type and the positive tip.
C9_EmptyLogReport ==
    ( IsReport(response) /\ interruptions = << >> )
    => /\ response.report.total_interruptions = 0
       /\ response.report.hours_lost = 0
       /\ response.report.focus_score = 100
       /\ DOMAIN response.report.interruptions_by_type = {}
       /\ response.report.tip = PositiveTip

\* an empty-log report after events that were not interruptions
C9_Witness ==
    /\ IsReport(response)
    /\ interruptions = << >>
    /\ user_state.focus_mode_active
    /\ response.report.total_interruptions = 0

\* C10: two reports with no append between them are equal, and serving a
\* report request changes neither the log nor the focus state.
C10_ReportIdempotent ==
    /\ [](Len(recent_reports) = 2 => recent_reports[1] = recent_reports[2])
    /\ [][ daily_report =>
             /\ interruptions' = interruptions
             /\ user_state' = user_state ]_vars

\* a second report after a first, a focus event in between, log not empty
C10_Witness ==
    /\ Len(recent_reports) = 2
    /\ IsReport(response)
    /\ interruptions # << >>
    /\ user_state.focus_mode_active

\* C11: a focus-mode activation served while focus mode is already
\* active leaves it active with the start time of this second activation,
\* and is answered with success and focus_mode_activated like the first.
C11_Reactivation ==
    [][ ( /\ WebhookEvent
          /\ user_state.focus_mode_active
          /\ HasTrigger(Served(request')) )
        => /\ user_state' = [ focus_mode_active |-> TRUE,
                              focus_start_time  |-> isoformat(clock) ]
           /\ IsWebhookOK(response')
           /\ response'.processed = "focus_mode_activated" ]_vars

\* a second activation at a later time than the first
C11_Witness ==
    /\ IsWebhookOK(response)
    /\ response.processed = "focus_mode_activated"
    /\ before.user_state = [ focus_mode_active |-> TRUE,
                             focus_start_time  |-> isoformat(0) ]
    /\ user_state = [ focus_mode_active |-> TRUE,
                      focus_start_time  |-> isoformat(1) ]

RecognisedKeys == {"transcript", "transcript_segments", "structured"}

\* no recognised transcript field, a null transcript value, or no body
Malformed(data) ==
    \/ data = NoBody
    \/ (DOMAIN data) \cap RecognisedKeys = {}
    \/ ("transcript" \in DOMAIN data /\ data.transcript = None)

\* C12: a webhook request whose transcript is malformed or cannot be
\* extracted is answered with success and no_action_needed, never with a
\* failure, and leaves the log and the focus state unchanged.
C12_MalformedIsNoAction ==
    ( request.route = "/webhook/omi" /\ Malformed(request.data) )
    => /\ IsWebhookOK(response)
       /\ response.processed = "no_action_needed"
       /\ Found = before

NotDelivered(message) ==
    message.delivery \in {"http_error", "network_error", "skipped"}

\* C13: when the message of a request was not delivered (the post raised,
\* was answered with an error status, or no webhook URL is configured) the
\* request is still answered normally: a focus-mode event leaves focus
\* mode active and gets a success response, a report request gets the
\* report.
C13_NotifierFailureContained ==
    ( slack # << >> /\ NotDelivered(slack[1]) )
    => /\ request.route = "/webhook/omi"
          => /\ IsWebhookOK(response)
             /\ response.processed = "focus_mode_activated"
             /\ user_state.focus_mode_active
             /\ user_state.focus_start_time # None
       /\ request.route = "/report/daily"
          => /\ IsReport(response)
             /\ response.report = generate_daily_report

C13_Witness ==
    /\ slack # << >>
    /\ slack[1].delivery = "network_error"
    /\ IsWebhookOK(response)
    /\ response.processed = "focus_mode_activated"
    /\ ~before.user_state.focus_mode_active
    /\ user_state.focus_mode_active

ClassifiedInterruption(resp) ==
    IsWebhookOK(resp) /\ In("interruption_", resp.processed)

\* C14: in every step the log before the step is a prefix of the log after
\* it, the log grows by at most one record, and it grows by exactly one
\* record exactly in the steps that serve an event classified as an
\* interruption.
C14_AppendOnly ==
    [][ /\ Len(interruptions') >= Len(interruptions)
        /\ SubSeq(interruptions', 1, Len(interruptions)) = interruptions
        /\ Len(interruptions') <= Len(interruptions) + 1
        /\ (Len(interruptions') = Len(interruptions) + 1)
           <=> (WebhookEvent /\ ClassifiedInterruption(response')) ]_vars

\* a record appended behind a different, unchanged one
C14_Witness ==
    /\ ClassifiedInterruption(response)
    /\ Len(before.interruptions) = 1
    /\ Len(interruptions) = 2
    /\ interruptions[1] = before.interruptions[1]
    /\ interruptions[2] # interruptions[1]

IsWebhookFailure(resp) == resp.route = "/webhook/omi" /\ resp.status = 500

\* what serving a well-formed request would return and leave behind
Handling(data) ==
    process_conversation(extract_transcript(data),
                         extract_timestamp(data, clock), clock, "sent")

\* C15: a webhook request answered with a failure leaves the log and the
\* focus state as they were, and every request served next is classified
\* and recorded as it would have been without the failed one.
C15_FailureIsolated ==
    [][ ( WebhookEvent /\ IsWebhookFailure(response') )
        => /\ interruptions' = interruptions
           /\ user_state' = user_state
           /\ \A data \in Payloads :
                 ~webhook_raises(data) => Handling(data)' = Handling(data) ]_vars

\* a failed request served with a record in the log and focus mode active
C15_Witness ==
    /\ IsWebhookFailure(response)
    /\ webhook_raises(request.data)
    /\ Found = before
    /\ interruptions # << >>
    /\ user_state.focus_mode_active

\* empty, or spaces only
IsBlank(transcript) ==
    \A i \in 1..Len(transcript) : SubSeq(transcript, i, i) = " "

\* C16: an event classified as a focus-mode activation leaves the log
\* unchanged, one classified as an interruption leaves the focus state
\* unchanged, and one classified as no action, as every empty or blank
\* transcript is, leaves both unchanged.
C16_OneComponentPerEvent ==
    IsWebhookOK(response)
    => /\ response.processed = "focus_mode_activated"
          => interruptions = before.interruptions
       /\ ClassifiedInterruption(response)
          => user_state = before.user_state
       /\ response.processed = "no_action_needed" => Found = before
       /\ IsBlank(Served(request)) => response.processed = "no_action_needed"
       /\ \/ interruptions = before.interruptions
          \/ user_state = before.user_state

\* a blank transcript served with a record in the log and focus mode active
C16_Witness ==
    /\ IsWebhookOK(response)
    /\ Served(request) = "   "
    /\ response.processed = "no_action_needed"
    /\ Found = before
    /\ interruptions # << >>
    /\ user_state.focus_mode_active

InterruptionTypes == {"casual_chat", "work_request", "meeting", "urgent"}

Present(data, key) == key \in DOMAIN data /\ data[key] \notin {None, ""}

\* the time of an event: its created_at, else its timestamp, else the time
\* at which it is served
EventTime(data, now) ==
    IF Present(data, "created_at") THEN data.created_at
    ELSE IF Present(data, "timestamp") THEN data.timestamp
    ELSE isoformat(now)

\* C17: every record of the log has one of the four types and
\* time_lost_minutes 23, and the record an event appends carries the
\* transcript and the timestamp of that event.
C17_RecordShape ==
    /\ [](\A i \in 1..Len(interruptions) :
             /\ interruptions[i].type \in InterruptionTypes
             /\ interruptions[i].time_lost_minutes = 23
             /\ DOMAIN interruptions[i] =
                  {"transcript", "timestamp", "type", "time_lost_minutes"})
    /\ [][ ( WebhookEvent /\ ClassifiedInterruption(response') )
           => LET record == interruptions'[Len(interruptions')]
              IN  /\ record.transcript = Served(request')
                  /\ record.timestamp = EventTime(request'.data, clock)
                  /\ response'.processed = "interruption_" \o record.type
         ]_vars

\* a record of an event without a timestamp of its own, served at time 1,
\* behind a record of an event that has one
C17_Witness ==
    /\ Len(interruptions) = 2
    /\ interruptions[1].timestamp = "2025-01-01T08:30:00"
    /\ interruptions[1].type = "meeting"
    /\ interruptions[2].transcript = "Could you  help"
    /\ interruptions[2].timestamp = isoformat(1)
    /\ interruptions[2].type = "work_request"

\* the by-type lines of a daily-report message
BulletLines(by_type) ==
    IF DOMAIN by_type = {} THEN {"* None"}
    ELSE {"* " \o k \o ": " \o ToString(by_type[k]) : k \in DOMAIN by_type}

\* C18: a report request hands the notifier exactly one daily-report
\* message, with the figures of the report it returns; a focus-mode
\* activation hands it exactly one focus-mode-activated message, the focus
\* state having been written before; every other webhook event hands it
\* nothing.
C18_Notifications ==
    /\ IsReport(response)
       => /\ Len(slack) = 1
          /\ slack[1].payload =
               [ text                |-> "Daily Focus Report",
                 total_interruptions |-> response.report.total_interruptions,
                 hours_lost          |-> response.report.hours_lost,
                 focus_score         |-> response.report.focus_score,
                 by_type_text        |->
                     BulletLines(response.report.interruptions_by_type),
                 tip                 |-> response.report.tip ]
    /\ request.route = "/webhook/omi"
       => IF IsWebhookOK(response)
             /\ response.processed = "focus_mode_activated"
          THEN /\ Len(slack) = 1
               /\ slack[1].payload = [text |-> "Focus Mode Activated"]
               /\ slack[1].user_state = user_state
               /\ user_state.focus_mode_active
          ELSE slack = << >>
    /\ request.route = "/" => slack = << >>

\* a report over two records of different types, its message delivered
C18_Witness ==
    /\ IsReport(response)
    /\ response.report.total_interruptions = 2
    /\ Cardinality(DOMAIN response.report.interruptions_by_type) = 2
    /\ Len(slack) = 1
    /\ slack[1].delivery = "sent"
    /\ slack[1].payload.total_interruptions = 2

\* C19: whether focus mode is active or not, a served event whose transcript
\* has no focus trigger and matches an interruption keyword appends one
\* record of the type its transcript determines and is answered with that
\* type, and a report counts every record of the log and scores the day by
\* that count alone.
C19_FocusIndependent ==
    /\ ( /\ IsWebhookOK(response)
         /\ request.route = "/webhook/omi"
         /\ ~HasTrigger(Served(request))
         /\ MatchingRanks(Served(request)) # {} )
       => LET int_type ==
                  PriorityOrder[Lowest(MatchingRanks(Served(request)))]
          IN  /\ Len(interruptions) = Len(before.interruptions) + 1
              /\ interruptions[Len(interruptions)].type = int_type
              /\ response.processed = "interruption_" \o int_type
              /\ user_state = before.user_state
    /\ IsReport(response)
       => /\ response.report.total_interruptions = Len(interruptions)
          /\ response.report.focus_score =
                 focus_score_of(Len(interruptions))

\* an interruption logged by an event served while focus mode is active
C19_Witness ==
    /\ ClassifiedInterruption(response)
    /\ before.user_state.focus_mode_active
    /\ user_state.focus_mode_active
    /\ Len(interruptions) = Len(before.interruptions) + 1
    /\ ~HasTrigger(Served(request))

====
